---- MODULE Spec2Model ----
(***************************************************************************)
(* Model of MModel (src/src/mmodel.cpp), the registry of harbour-mashka:   *)
(* the ordered name list m_names, the map m_entries, the aggregate totals, *)
(* the busy/resetting flags, and the three background tasks resetImpl,     *)
(* deleteDataImpl and deleteUnusedDataImpl started by QtConcurrent::run.   *)
(*                                                                         *)
(* The build modelled is the default one (SAFE_MODE not defined), so       *)
(* removePaths really deletes.  A path is removed or kept as a whole.      *)
(* MEntry::title and MEntry::icon are written by resetImpl only and read   *)
(* by data() only; they are left out.                                      *)
(***************************************************************************)
EXTENDS Integers, Sequences, FiniteSets

(***************************************************************************)
(* Bounds of the model.                                                    *)
(***************************************************************************)
\* how many paths may refuse deletion during one clearEntry
MaxRefused == 1
\* how many background tasks the thread pool may hold at once
MaxTasks == 2
\* longest batch handed to removePaths when it is exercised on its own
MaxBatch == 3

(***************************************************************************)
(* The environment: a small disk.  Every path has a fixed size when it     *)
(* exists; cfg/harbour-foo is an empty directory (size 0).                 *)
(***************************************************************************)
Paths ==
    {"cfg/harbour-a", "etc/a.conf", "var/a.cache", "cache/harbour-a",
     "cfg/harbour-foo", "share/harbour-foo", "share/app.x"}

FileSize ==
    [p \in Paths |->
        CASE p = "cfg/harbour-a"     -> 1
          [] p = "etc/a.conf"        -> 2
          [] p = "var/a.cache"       -> 4
          [] p = "cache/harbour-a"   -> 8
          [] p = "cfg/harbour-foo"   -> 0
          [] p = "share/harbour-foo" -> 16
          [] p = "share/app.x"       -> 32]

\* the three generic locations of resetImpl, by loop index i = 0, 1, 2, with
\* the harbour-* directories each may hold and the name of each directory
app_paths ==
    [i \in 0..2 |->
        CASE i = 0 -> {"cfg/harbour-a", "cfg/harbour-foo"}
          [] i = 1 -> {"cache/harbour-a"}
          [] i = 2 -> {"share/harbour-foo"}]

fileName ==
    [p \in UNION {app_paths[i] : i \in 0..2} |->
        IF p \in {"cfg/harbour-a", "cache/harbour-a"}
            THEN "harbour-a" ELSE "harbour-foo"]

\* the registry of known apps, in registry order
knownApps ==
    << [name |-> "harbour-a",
        config |-> <<"cfg/harbour-a", "etc/a.conf">>,
        cache |-> <<"var/a.cache">>,
        local_data |-> <<>>],
       [name |-> "app.x",
        config |-> <<>>,
        cache |-> <<>>,
        local_data |-> <<"share/app.x">>] >>

\* the names a record can have, in QMap key order
KeyOrder == <<"app.x", "harbour-a", "harbour-foo">>

Names == {KeyOrder[i] : i \in 1..Len(KeyOrder)}

\* a name no record ever has
NoName == "harbour-none"

DataTypeFlags == {"ConfigData", "CacheData", "LocalData"}

\* the values of the DataTypes argument
DataTypes == SUBSET DataTypeFlags

Range(s) == {s[i] : i \in 1..Len(s)}

\* the paths matched by the pattern excludeDirs() builds from the known apps
excludeDirs ==
    UNION {Range(knownApps[k].config) \cup Range(knownApps[k].cache)
             \cup Range(knownApps[k].local_data) : k \in 1..Len(knownApps)}

VARIABLES
    disk,       \* the paths that exist
    desktop,    \* the names that have a <name>.desktop file
    m_names, m_entries,
    m_busy, m_resetting,
    m_unused_apps_count,
    m_total_cache_size, m_total_config_size, m_total_localdata_size,
    m_unused_config_size, m_unused_cache_size, m_unused_localdata_size,
    tasks,      \* the background tasks, by thread-pool slot
    signals,    \* the notifications each task not yet discarded has emitted
    call        \* a direct call of removePaths: its batch and its result

envVars == <<disk, desktop>>

modelVars == <<m_names, m_entries>>

totalVars ==
    <<m_unused_apps_count,
      m_total_cache_size, m_total_config_size, m_total_localdata_size,
      m_unused_config_size, m_unused_cache_size, m_unused_localdata_size>>

vars ==
    <<disk, desktop, m_names, m_entries, m_busy, m_resetting,
      m_unused_apps_count,
      m_total_cache_size, m_total_config_size, m_total_localdata_size,
      m_unused_config_size, m_unused_cache_size, m_unused_localdata_size,
      tasks, signals, call>>

(***************************************************************************)
(* Pure helpers of mmodel.cpp.                                             *)
(***************************************************************************)
\* getSize on disk d: 0 for a path that does not exist
getSize(d, p) == IF p \in d THEN FileSize[p] ELSE 0

\* a default-constructed MEntry
MEntry ==
    [installed |-> FALSE,
     config_size |-> 0, cache_size |-> 0, data_size |-> 0,
     config_paths |-> <<>>, cache_paths |-> <<>>, data_paths |-> <<>>]

\* MEntry::exists(), declared in mmodel.h: a record exists while some category
\* has a size above 0.  clearEntry empties a category by zeroing its size only
\* and deleteDataImpl tests exists() right after it.
exists(e) == e.config_size > 0 \/ e.cache_size > 0 \/ e.data_size > 0

RECURSIVE processKnownPaths(_, _, _)
\* the pair (paths, size) after appending the known_paths that exist on d
processKnownPaths(d, acc, known_paths) ==
    IF known_paths = <<>> THEN acc
    ELSE LET p == Head(known_paths)
             nxt == IF p \in d
                       THEN [paths |-> Append(acc.paths, p),
                             size |-> acc.size + getSize(d, p)]
                       ELSE acc
         IN  processKnownPaths(d, nxt, Tail(known_paths))

\* whether removing p succeeds: p is a directory or a file, and the system
\* does not refuse the removal (refused: the paths it refuses)
removeOk(d, p, refused) == p \in d /\ p \notin refused

RECURSIVE removeLoopStop(_, _, _)
\* removeLoop giving up at the first path it cannot remove
removeLoopStop(acc, paths, refused) ==
    IF paths = <<>> THEN acc
    ELSE LET p == Head(paths)
             size == getSize(acc.disk, p)
         IN  IF removeOk(acc.disk, p, refused)
                 THEN removeLoopStop([res |-> acc.res + size,
                                      disk |-> acc.disk \ {p},
                                      errors |-> acc.errors],
                                     Tail(paths), refused)
                 ELSE [res |-> acc.res,
                       disk |-> acc.disk,
                       errors |-> Append(acc.errors,
                                   [sig |-> "deletionError", arg |-> p])]

RECURSIVE removeLoop(_, _, _)
\* the second loop of removePaths over the paths left, from the state acc
removeLoop(acc, paths, refused) ==
    IF paths = <<>> THEN acc
    ELSE LET p == Head(paths)
             size == getSize(acc.disk, p)
             nxt == IF removeOk(acc.disk, p, refused)
                       THEN [res |-> acc.res + size,
                             disk |-> acc.disk \ {p},
                             errors |-> acc.errors]
                       ELSE [res |-> acc.res,
                             disk |-> acc.disk,
                             errors |-> Append(acc.errors,
                                         [sig |-> "deletionError", arg |-> p])]
         IN  removeLoop(nxt, Tail(paths), refused)

\* removePaths without its first loop, the search for an empty path
removePathsNoCheck(d, paths, refused) ==
    removeLoop([res |-> 0, disk |-> d, errors |-> <<>>], paths, refused)

\* removePaths on disk d: the bytes reclaimed, the disk left and the
\* deletionError signals emitted
removePaths(d, paths, refused) ==
    IF \E i \in 1..Len(paths) : paths[i] = ""
        THEN [res |-> 0, disk |-> d, errors |-> <<>>]
        ELSE removeLoop([res |-> 0, disk |-> d, errors |-> <<>>], paths,
                        refused)

\* clearCategory without types.testFlag(flag)
clearCategoryAnyType(st, types, flag, sizeField, pathField, role, refused) ==
    IF st.entry[sizeField] > 0
        THEN LET r == removePaths(st.disk, st.entry[pathField], refused)
             IN  IF r.res > 0
                     THEN [entry |-> [st.entry EXCEPT ![sizeField] = 0],
                           deleted |-> st.deleted + r.res,
                           changed |-> Append(st.changed, role),
                           disk |-> r.disk,
                           errors |-> st.errors \o r.errors]
                     ELSE [st EXCEPT !.disk = r.disk,
                                     !.errors = st.errors \o r.errors]
        ELSE st

\* one of the three blocks of clearEntry, for the category with the given
\* flag, size field, path field and role; st is (entry, deleted, changed,
\* disk, errors)
clearCategory(st, types, flag, sizeField, pathField, role, refused) ==
    IF flag \in types /\ st.entry[sizeField] > 0
        THEN LET r == removePaths(st.disk, st.entry[pathField], refused)
             IN  IF r.res > 0
                     THEN [entry |-> [st.entry EXCEPT ![sizeField] = 0],
                           deleted |-> st.deleted + r.res,
                           changed |-> Append(st.changed, role),
                           disk |-> r.disk,
                           errors |-> st.errors \o r.errors]
                     ELSE [st EXCEPT !.disk = r.disk,
                                     !.errors = st.errors \o r.errors]
        ELSE st

\* clearEntry on disk d: the entry, the running total deleted, the changed
\* roles, the disk left and the deletionError signals emitted
clearEntry(d, entry, deleted, types, refused) ==
    LET s0 == [entry |-> entry, deleted |-> deleted, changed |-> <<>>,
               disk |-> d, errors |-> <<>>]
        s1 == clearCategory(s0, types, "ConfigData", "config_size",
                            "config_paths", "ConfigSizeRole", refused)
        s2 == clearCategory(s1, types, "CacheData", "cache_size",
                            "cache_paths", "CacheSizeRole", refused)
    IN  clearCategory(s2, types, "LocalData", "data_size",
                      "data_paths", "LocalDataSizeRole", refused)

RECURSIVE SumOf(_, _, _)
\* the sum of field f of the entries with keys in S
SumOf(entries, S, f) ==
    IF S = {} THEN 0
    ELSE LET n == CHOOSE x \in S : TRUE
         IN  entries[n][f] + SumOf(entries, S \ {n}, f)

\* the keys of the entries that are not installed
Unused(entries) == {n \in DOMAIN entries : ~entries[n].installed}

\* the seven totals calculateTotal assigns, from the map
calculateTotal(entries) ==
    [unused_apps_count |-> Cardinality(Unused(entries)),
     total_localdata_size |-> SumOf(entries, DOMAIN entries, "config_size"),
     total_cache_size |-> SumOf(entries, DOMAIN entries, "cache_size"),
     total_config_size |-> SumOf(entries, DOMAIN entries, "data_size"),
     unused_config_size |-> SumOf(entries, Unused(entries), "config_size"),
     unused_cache_size |-> SumOf(entries, Unused(entries), "cache_size"),
     unused_localdata_size |-> SumOf(entries, Unused(entries), "data_size")]

\* the state change of calculateTotal, which also emits totalChanged
SetTotals(entries) ==
    LET t == calculateTotal(entries)
    IN  /\ m_unused_apps_count' = t.unused_apps_count
        /\ m_total_localdata_size' = t.total_localdata_size
        /\ m_total_cache_size' = t.total_cache_size
        /\ m_total_config_size' = t.total_config_size
        /\ m_unused_config_size' = t.unused_config_size
        /\ m_unused_cache_size' = t.unused_cache_size
        /\ m_unused_localdata_size' = t.unused_localdata_size

(***************************************************************************)
(* Helpers of the containers.                                              *)
(***************************************************************************)
\* QStringList::indexOf, 0-based, -1 when absent
indexOf(names, name) ==
    IF \E i \in 1..Len(names) : names[i] = name
        THEN (CHOOSE i \in 1..Len(names) :
                 /\ names[i] = name
                 /\ \A j \in 1..(i - 1) : names[j] # name) - 1
        ELSE -1

\* removeOne filling the place of name with the last element
removeOneSwap(names, name) ==
    LET k == indexOf(names, name) + 1
    IN  IF k = 0 THEN names
        ELSE [i \in 1..(Len(names) - 1) |->
                 IF i = k THEN names[Len(names)] ELSE names[i]]

\* QStringList::removeOne: the list without the first occurrence of name
removeOne(names, name) ==
    LET k == indexOf(names, name) + 1
    IN  IF k = 0 THEN names
        ELSE [i \in 1..(Len(names) - 1) |->
                 IF i < k THEN names[i] ELSE names[i + 1]]

\* the empty QMap
EmptyMap == [k \in {} |-> MEntry]

\* the map with key n bound to e (inserted when new)
insert(entries, n, e) ==
    [k \in DOMAIN entries \cup {n} |-> IF k = n THEN e ELSE entries[k]]

\* QMap::remove / QMap::erase: the map without key n
remove(entries, n) == [k \in DOMAIN entries \ {n} |-> entries[k]]

\* QMap::operator[] read after a possible default insertion
value(entries, n) == IF n \in DOMAIN entries THEN entries[n] ELSE MEntry

Rank(n) == CHOOSE i \in 1..Len(KeyOrder) : KeyOrder[i] = n

End == "(end)"

\* the first key of the map at or after rank r, End when there is none
keyFrom(entries, r) ==
    LET later == {n \in DOMAIN entries : Rank(n) >= r}
    IN  IF later = {} THEN End
        ELSE CHOOSE n \in later : \A o \in later : Rank(n) <= Rank(o)

\* m_entries.begin()
begin(entries) == keyFrom(entries, 1)

\* an iterator that is never advanced
nextStay(entries, it) == it

\* ++it, and the iterator erase(it) returns
next(entries, it) == keyFrom(entries, Rank(it) + 1)

\* the orders in which a directory listing may come
Perms(S) ==
    {q \in [1..Cardinality(S) -> S] : \A i, j \in 1..Cardinality(S) :
                                          q[i] = q[j] => i = j}

\* the task in slot s emits the signals sigs, in order
EmitAll(s, sigs) == signals' = [signals EXCEPT ![s] = @ \o sigs]

Emit(s, sig, arg) == EmitAll(s, <<[sig |-> sig, arg |-> arg]>>)

(***************************************************************************)
(* The scan of resetImpl.                                                  *)
(***************************************************************************)
\* the MEntry resetImpl builds for a known app on disk d
knownEntry(d, app) ==
    LET none == [paths |-> <<>>, size |-> 0]
        c == processKnownPaths(d, none, app.config)
        h == processKnownPaths(d, none, app.cache)
        l == processKnownPaths(d, none, app.local_data)
    IN  [MEntry EXCEPT !.config_paths = c.paths, !.config_size = c.size,
                       !.cache_paths = h.paths, !.cache_size = h.size,
                       !.data_paths = l.paths, !.data_size = l.size]

RECURSIVE processKnownApps(_, _, _)
\* the loop over knownApps(): st is (names, entries)
processKnownApps(d, st, apps) ==
    IF apps = <<>> THEN st
    ELSE LET app == Head(apps)
             e == knownEntry(d, app)
             nxt == IF exists(e)
                       THEN [names |-> Append(st.names, app.name),
                             entries |-> insert(st.entries, app.name, e)]
                       ELSE st
         IN  processKnownApps(d, nxt, Tail(apps))

\* the switch (i) of resetImpl: entry e with dirpath added to category i
addDir(e, i, dirpath, size) ==
    CASE i = 0 -> [e EXCEPT !.config_paths = Append(@, dirpath),
                            !.config_size = size]
      [] i = 1 -> [e EXCEPT !.cache_paths = Append(@, dirpath),
                            !.cache_size = size]
      [] i = 2 -> [e EXCEPT !.data_paths = Append(@, dirpath),
                            !.data_size = size]

\* foundDir without the test against the paths of known apps
foundDirNoExclude(d, st, i, dirpath) ==
    LET size == getSize(d, dirpath)
        dirname == fileName[dirpath]
        names == IF dirname \notin DOMAIN st.entries
                    THEN Append(st.names, dirname)
                    ELSE st.names
        e == value(st.entries, dirname)
    IN  [names |-> names,
         entries |-> insert(st.entries, dirname, addDir(e, i, dirpath, size))]

\* foundDir without the test m_entries.contains(dirname)
foundDirAlwaysAppend(d, st, i, dirpath) ==
    IF excludeDirs # {} /\ dirpath \in excludeDirs
        THEN st
        ELSE LET size == getSize(d, dirpath)
                 dirname == fileName[dirpath]
                 e == value(st.entries, dirname)
             IN  [names |-> Append(st.names, dirname),
                  entries |-> insert(st.entries, dirname,
                                     addDir(e, i, dirpath, size))]

\* one turn of the while (it.hasNext()) loop of resetImpl, for dirpath under
\* app_paths[i]
foundDir(d, st, i, dirpath) ==
    IF excludeDirs # {} /\ dirpath \in excludeDirs
        THEN st
        ELSE LET size == getSize(d, dirpath)
                 dirname == fileName[dirpath]
                 names == IF dirname \notin DOMAIN st.entries
                             THEN Append(st.names, dirname)
                             ELSE st.names
                 e == value(st.entries, dirname)
             IN  [names |-> names,
                  entries |-> insert(st.entries, dirname,
                                     addDir(e, i, dirpath, size))]

RECURSIVE searchDir(_, _, _, _)
\* the loop over the listing dirs of app_paths[i]
searchDir(d, st, i, dirs) ==
    IF dirs = <<>> THEN st
    ELSE searchDir(d, foundDir(d, st, i, Head(dirs)), i, Tail(dirs))

\* the loop over m_entries.keys() that looks for <name>.desktop
markInstalled(entries) ==
    [n \in DOMAIN entries |->
        IF n \in desktop THEN [entries[n] EXCEPT !.installed = TRUE]
                         ELSE entries[n]]

\* the whole scan of resetImpl, from the cleared containers, with the three
\* directory listings in the orders given
scan(d, ord0, ord1, ord2) ==
    LET cleared == [names |-> <<>>, entries |-> EmptyMap]
        k  == processKnownApps(d, cleared, knownApps)
        s0 == searchDir(d, k, 0, ord0)
        s1 == searchDir(d, s0, 1, ord1)
        s2 == searchDir(d, s1, 2, ord2)
    IN  [names |-> s2.names, entries |-> markInstalled(s2.entries)]

(***************************************************************************)
(* Tasks.  QtConcurrent::run puts a task in a free slot of the thread      *)
(* pool; the task then runs its Impl function step by step and is          *)
(* discarded once the function has returned.                               *)
(***************************************************************************)
Slots == 1..MaxTasks

IdleTask ==
    [kind |-> "none", pc |-> "idle", name |-> NoName, types |-> {},
     deleted |-> 0, it |-> End, missing |-> FALSE]

NewTask(kind, pc, name, types) ==
    [kind |-> kind, pc |-> pc, name |-> name, types |-> types,
     deleted |-> 0, it |-> End, missing |-> FALSE]

\* no task is held by the pool
Idle == \A s \in Slots : tasks[s].pc = "idle"

\* the slot the next task goes to
FreeSlot == CHOOSE s \in Slots :
                /\ tasks[s].pc = "idle"
                /\ \A t \in Slots : tasks[t].pc = "idle" => s <= t

\* another task is held and a slot is free
Overlap == ~Idle /\ \E s \in Slots : tasks[s].pc = "idle"

Start(task) ==
    /\ tasks' = [tasks EXCEPT ![FreeSlot] = task]
    /\ UNCHANGED <<envVars, modelVars, totalVars, m_busy, m_resetting,
                   signals, call>>

Goto(s, pc) == tasks' = [tasks EXCEPT ![s].pc = pc]

\* setBusy
setBusy(s, busy) ==
    /\ m_busy' = busy
    /\ Emit(s, "busyChanged", busy)

(***************************************************************************)
(* The commands, issued while no task is held (the caller disables its     *)
(* triggers while busy).                                                   *)
(***************************************************************************)
reset ==
    /\ Idle /\ call.state = "none"
    /\ Start(NewTask("reset", "begin", NoName, {}))

deleteData(name, types) ==
    /\ Idle /\ call.state = "none"
    /\ Start(NewTask("deleteData", "check", name, types))

deleteUnusedData(types) ==
    /\ Idle /\ call.state = "none"
    /\ Start(NewTask("deleteUnusedData", "begin", NoName, types))

(***************************************************************************)
(* The same commands issued while another task is still held: nothing in   *)
(* reset, deleteData or deleteUnusedData looks at m_busy.                  *)
(***************************************************************************)
resetOverlapping ==
    /\ Overlap
    /\ Start(NewTask("reset", "begin", NoName, {}))

deleteDataOverlapping(name, types) ==
    /\ Overlap
    /\ Start(NewTask("deleteData", "check", name, types))

deleteUnusedDataOverlapping(types) ==
    /\ Overlap
    /\ Start(NewTask("deleteUnusedData", "begin", NoName, types))

(***************************************************************************)
(* resetImpl                                                               *)
(***************************************************************************)
resetBegin(s) ==
    /\ tasks[s].kind = "reset" /\ tasks[s].pc = "begin"
    /\ setBusy(s, TRUE)
    /\ Goto(s, "mark")
    /\ UNCHANGED <<envVars, modelVars, totalVars, m_resetting, call>>

resetMark(s) ==
    /\ tasks[s].kind = "reset" /\ tasks[s].pc = "mark"
    /\ m_resetting' = TRUE
    /\ EmitAll(s, <<[sig |-> "modelAboutToBeReset", arg |-> 0],
                    [sig |-> "resettingChanged", arg |-> TRUE]>>)
    /\ Goto(s, "scan")
    /\ UNCHANGED <<envVars, modelVars, totalVars, m_busy, call>>

resetScan(s) ==
    /\ tasks[s].kind = "reset" /\ tasks[s].pc = "scan"
    /\ \E ord0 \in Perms(app_paths[0] \cap disk),
          ord1 \in Perms(app_paths[1] \cap disk),
          ord2 \in Perms(app_paths[2] \cap disk) :
          LET r == scan(disk, ord0, ord1, ord2)
          IN  /\ m_names' = r.names
              /\ m_entries' = r.entries
    /\ Emit(s, "modelReset", 0)
    /\ Goto(s, "total")
    /\ UNCHANGED <<envVars, totalVars, m_busy, m_resetting, call>>

resetTotal(s) ==
    /\ tasks[s].kind = "reset" /\ tasks[s].pc = "total"
    /\ SetTotals(m_entries)
    /\ Emit(s, "totalChanged", 0)
    /\ Goto(s, "unbusy")
    /\ UNCHANGED <<envVars, modelVars, m_busy, m_resetting, call>>

resetUnbusy(s) ==
    /\ tasks[s].kind = "reset" /\ tasks[s].pc = "unbusy"
    /\ setBusy(s, FALSE)
    /\ Goto(s, "unmark")
    /\ UNCHANGED <<envVars, modelVars, totalVars, m_resetting, call>>

resetUnmark(s) ==
    /\ tasks[s].kind = "reset" /\ tasks[s].pc = "unmark"
    /\ m_resetting' = FALSE
    /\ Emit(s, "resettingChanged", FALSE)
    /\ Goto(s, "done")
    /\ UNCHANGED <<envVars, modelVars, totalVars, m_busy, call>>

resetImpl(s) ==
    \/ resetBegin(s)
    \/ resetMark(s)
    \/ resetScan(s)
    \/ resetTotal(s)
    \/ resetUnbusy(s)
    \/ resetUnmark(s)

(***************************************************************************)
(* deleteDataImpl and deleteUnusedDataImpl                                 *)
(***************************************************************************)
\* the sets of paths of entry e the system may refuse to remove during one
\* clearEntry
Refusals(e) ==
    {f \in SUBSET (Range(e.config_paths) \cup Range(e.cache_paths)
                     \cup Range(e.data_paths)) : Cardinality(f) <= MaxRefused}

\* patchRow with m_names.removeOne(name) left out
patchRowKeepName(names, entries, name, e, changed) ==
    LET row == indexOf(names, name)
    IN  IF ~exists(e)
            THEN [names |-> names,
                  entries |-> remove(entries, name),
                  sigs |-> <<[sig |-> "rowsRemoved", arg |-> row]>>]
            ELSE [names |-> names,
                  entries |-> insert(entries, name, e),
                  sigs |-> <<[sig |-> "dataChanged",
                              arg |-> <<row, changed>>]>>]

\* what follows clearEntry for one record: the row is removed when the entry
\* no longer exists, else updated; e is the entry as clearEntry left it
patchRow(names, entries, name, e, changed) ==
    LET row == indexOf(names, name)
    IN  IF ~exists(e)
            THEN [names |-> removeOne(names, name),
                  entries |-> remove(entries, name),
                  sigs |-> <<[sig |-> "rowsRemoved", arg |-> row]>>]
            ELSE [names |-> names,
                  entries |-> insert(entries, name, e),
                  sigs |-> <<[sig |-> "dataChanged",
                              arg |-> <<row, changed>>]>>]

\* deletedSignals without the test deleted > 0
deletedSignalsAlways(deleted) ==
    <<[sig |-> "totalChanged", arg |-> 0],
      [sig |-> "dataDeleted", arg |-> deleted]>>

\* the signals of the closing if (deleted > 0) block
deletedSignals(deleted) ==
    IF deleted > 0
        THEN <<[sig |-> "totalChanged", arg |-> 0],
               [sig |-> "dataDeleted", arg |-> deleted]>>
        ELSE <<>>

\* the closing if (deleted > 0) block on the map as the task leaves it
totalIfDeleted(deleted, entries) ==
    IF deleted > 0 THEN SetTotals(entries) ELSE UNCHANGED totalVars

\* deleteDataCheck with setBusy(true) moved before the test
deleteDataCheckBusyFirst(s) ==
    /\ tasks[s].kind = "deleteData" /\ tasks[s].pc = "check"
    /\ setBusy(s, TRUE)
    /\ IF tasks[s].name \notin DOMAIN m_entries
           THEN tasks' = [tasks EXCEPT ![s].pc = "done", ![s].missing = TRUE]
           ELSE Goto(s, "clear")
    /\ UNCHANGED <<envVars, modelVars, totalVars, m_resetting, call>>

deleteDataCheck(s) ==
    /\ tasks[s].kind = "deleteData" /\ tasks[s].pc = "check"
    /\ IF tasks[s].name \notin DOMAIN m_entries
           THEN /\ tasks' = [tasks EXCEPT ![s].pc = "done",
                                          ![s].missing = TRUE]
                /\ UNCHANGED <<m_busy, signals>>
           ELSE /\ setBusy(s, TRUE)
                /\ Goto(s, "clear")
    /\ UNCHANGED <<envVars, modelVars, totalVars, m_resetting, call>>

deleteDataClear(s) ==
    /\ tasks[s].kind = "deleteData" /\ tasks[s].pc = "clear"
    /\ \E refused \in Refusals(value(m_entries, tasks[s].name)) :
       \E r \in {clearEntry(disk, value(m_entries, tasks[s].name), 0,
                            tasks[s].types, refused)} :
       \E p \in {patchRow(m_names, m_entries, tasks[s].name, r.entry,
                          r.changed)} :
           /\ disk' = r.disk
           /\ m_names' = p.names
           /\ m_entries' = p.entries
           /\ totalIfDeleted(r.deleted, p.entries)
           /\ EmitAll(s, r.errors \o p.sigs \o deletedSignals(r.deleted))
           /\ tasks' = [tasks EXCEPT ![s].pc = "finish",
                                     ![s].deleted = r.deleted]
    /\ UNCHANGED <<desktop, m_busy, m_resetting, call>>

deleteDataFinish(s) ==
    /\ tasks[s].kind = "deleteData" /\ tasks[s].pc = "finish"
    /\ setBusy(s, FALSE)
    /\ Goto(s, "done")
    /\ UNCHANGED <<envVars, modelVars, totalVars, m_resetting, call>>

deleteDataImpl(s) ==
    \/ deleteDataCheck(s)
    \/ deleteDataClear(s)
    \/ deleteDataFinish(s)

deleteUnusedBegin(s) ==
    /\ tasks[s].kind = "deleteUnusedData" /\ tasks[s].pc = "begin"
    /\ setBusy(s, TRUE)
    /\ tasks' = [tasks EXCEPT ![s].pc = "loop", ![s].deleted = 0,
                              ![s].it = begin(m_entries)]
    /\ UNCHANGED <<envVars, modelVars, totalVars, m_resetting, call>>

\* the test that makes the loop pass over a record
skipsNothing(e) == FALSE

\* the test that makes the loop of deleteUnusedDataImpl pass over a record
skips(e) == e.installed

\* one turn of the while loop, on the record the iterator is at
deleteUnusedTurn(s) ==
    /\ tasks[s].kind = "deleteUnusedData" /\ tasks[s].pc = "loop"
    /\ tasks[s].it \in DOMAIN m_entries
    /\ LET name == tasks[s].it
           e == m_entries[name]
       IN  IF skips(e)
               THEN /\ tasks' = [tasks EXCEPT ![s].it = next(m_entries, name)]
                    /\ UNCHANGED <<disk, modelVars, signals>>
               ELSE \E refused \in Refusals(e) :
                    \E r \in {clearEntry(disk, e, tasks[s].deleted,
                                         tasks[s].types, refused)} :
                    \E p \in {patchRow(m_names, m_entries, name, r.entry,
                                       r.changed)} :
                        /\ disk' = r.disk
                        /\ m_names' = p.names
                        /\ m_entries' = p.entries
                        /\ EmitAll(s, r.errors \o p.sigs)
                        /\ tasks' = [tasks EXCEPT
                                        ![s].it = next(m_entries, name),
                                        ![s].deleted = r.deleted]
    /\ UNCHANGED <<desktop, totalVars, m_busy, m_resetting, call>>

\* the iterator was invalidated by another task changing the map.  Of what
\* may follow, the model keeps the runs in which the loop goes on from a
\* later record or ends.
deleteUnusedStray(s) ==
    /\ tasks[s].kind = "deleteUnusedData" /\ tasks[s].pc = "loop"
    /\ tasks[s].it \notin DOMAIN m_entries \cup {End}
    /\ \E k \in {n \in DOMAIN m_entries : Rank(n) > Rank(tasks[s].it)}
                 \cup {End} :
          tasks' = [tasks EXCEPT ![s].it = k]
    /\ UNCHANGED <<envVars, modelVars, totalVars, m_busy, m_resetting,
                   signals, call>>

\* the loop has ended: the closing if (deleted > 0) block
deleteUnusedTotal(s) ==
    /\ tasks[s].kind = "deleteUnusedData" /\ tasks[s].pc = "loop"
    /\ tasks[s].it = End
    /\ totalIfDeleted(tasks[s].deleted, m_entries)
    /\ EmitAll(s, deletedSignals(tasks[s].deleted))
    /\ Goto(s, "finish")
    /\ UNCHANGED <<envVars, modelVars, m_busy, m_resetting, call>>

deleteUnusedFinish(s) ==
    /\ tasks[s].kind = "deleteUnusedData" /\ tasks[s].pc = "finish"
    /\ setBusy(s, FALSE)
    /\ Goto(s, "done")
    /\ UNCHANGED <<envVars, modelVars, totalVars, m_resetting, call>>

deleteUnusedDataImpl(s) ==
    \/ deleteUnusedBegin(s)
    \/ deleteUnusedTurn(s)
    \/ deleteUnusedTotal(s)
    \/ deleteUnusedFinish(s)

\* the pool discards a task whose function has returned
discard(s) ==
    /\ tasks[s].pc = "done"
    /\ tasks' = [tasks EXCEPT ![s] = IdleTask]
    /\ signals' = [signals EXCEPT ![s] = <<>>]
    /\ UNCHANGED <<envVars, modelVars, totalVars, m_busy, m_resetting, call>>

(***************************************************************************)
(* A direct call of removePaths on a batch.                                *)
(***************************************************************************)
removePathsCall ==
    /\ call.state = "ready"
    /\ \E refused \in {f \in SUBSET Range(call.paths) :
                           Cardinality(f) <= MaxRefused} :
       LET r == removePaths(disk, call.paths, refused)
       IN  /\ disk' = r.disk
           /\ call' = [call EXCEPT !.state = "returned", !.res = r.res,
                                   !.errors = r.errors,
                                   !.before = disk, !.refused = refused]
    /\ UNCHANGED <<desktop, modelVars, totalVars, m_busy, m_resetting,
                   tasks, signals>>

(***************************************************************************)
(* Initial states and specifications.                                      *)
(***************************************************************************)
NoCall ==
    [state |-> "none", paths |-> <<>>, res |-> 0, errors |-> <<>>,
     before |-> {}, refused |-> {}]

\* the registry as the constructor leaves it
Constructed ==
    /\ m_names = <<>>
    /\ m_entries = EmptyMap
    /\ m_busy = FALSE
    /\ m_resetting = FALSE
    /\ m_unused_apps_count = 0
    /\ m_total_cache_size = 0
    /\ m_total_config_size = 0
    /\ m_total_localdata_size = 0
    /\ m_unused_config_size = 0
    /\ m_unused_cache_size = 0
    /\ m_unused_localdata_size = 0
    /\ tasks = [s \in Slots |-> IdleTask]
    /\ signals = [s \in Slots |-> <<>>]

Init ==
    /\ disk \in SUBSET Paths
    /\ desktop \in SUBSET {"harbour-a"}
    /\ Constructed
    /\ call = NoCall

Next ==
    \/ reset
    \/ \E name \in Names \cup {NoName}, types \in DataTypes :
          deleteData(name, types)
    \/ \E types \in DataTypes : deleteUnusedData(types)
    \/ \E s \in Slots : resetImpl(s)
    \/ \E s \in Slots : deleteDataImpl(s)
    \/ \E s \in Slots : deleteUnusedDataImpl(s)
    \/ \E s \in Slots : discard(s)

Spec == Init /\ [][Next]_vars

(***************************************************************************)
(* Commands may also be issued while a task is still held.  The disk      *)
(* holds one directory per app and every delete asks for every category.   *)
(***************************************************************************)
InitOverlap ==
    /\ disk = {"cfg/harbour-a", "share/harbour-foo", "share/app.x"}
    /\ desktop = {"harbour-a"}
    /\ Constructed
    /\ call = NoCall

NextOverlap ==
    \/ reset
    \/ resetOverlapping
    \/ \E name \in Names \cup {NoName} : deleteData(name, DataTypeFlags)
    \/ \E name \in Names \cup {NoName} :
          deleteDataOverlapping(name, DataTypeFlags)
    \/ deleteUnusedData(DataTypeFlags)
    \/ deleteUnusedDataOverlapping(DataTypeFlags)
    \/ \E s \in Slots : resetImpl(s)
    \/ \E s \in Slots : deleteDataImpl(s)
    \/ \E s \in Slots : deleteUnusedDataImpl(s)
    \/ \E s \in Slots : deleteUnusedStray(s)
    \/ \E s \in Slots : discard(s)

SpecOverlap == InitOverlap /\ [][NextOverlap]_vars

(***************************************************************************)
(* removePaths on its own: any batch of at most MaxBatch paths, the empty  *)
(* path among them, on any disk holding some of them.                      *)
(***************************************************************************)
BatchPaths == {"", "cfg/harbour-a", "etc/a.conf", "share/app.x"}

Batches == UNION {[1..n -> BatchPaths] : n \in 0..MaxBatch}

InitRemove ==
    /\ disk \in SUBSET (BatchPaths \ {""})
    /\ desktop = {}
    /\ Constructed
    /\ call \in {[NoCall EXCEPT !.state = "ready", !.paths = b] :
                    b \in Batches}

NextRemove == removePathsCall

SpecRemove == InitRemove /\ [][NextRemove]_vars

(***************************************************************************)
(* What an observer reads, and the properties checked.                     *)
(***************************************************************************)
\* rowCount()
rowCount == Len(m_names)

\* the entry data() reads for row i (1-based here)
rowEntry(i) == value(m_entries, m_names[i])

Rows == 1..rowCount

RECURSIVE RowSumOver(_, _)
\* the sum of field f over the rows in R
RowSumOver(R, f) ==
    IF R = {} THEN 0
    ELSE LET i == CHOOSE x \in R : TRUE
         IN  rowEntry(i)[f] + RowSumOver(R \ {i}, f)

UnusedRows == {i \in Rows : ~rowEntry(i).installed}

\* every task that was started has returned
Completed == \A s \in Slots : tasks[s].pc \in {"idle", "done"}

Categories == {"config", "cache", "data"}

sizeOf(e, c) ==
    CASE c = "config" -> e.config_size
      [] c = "cache"  -> e.cache_size
      [] c = "data"   -> e.data_size

pathsOf(e, c) ==
    CASE c = "config" -> e.config_paths
      [] c = "cache"  -> e.cache_paths
      [] c = "data"   -> e.data_paths

flagOf(c) ==
    CASE c = "config" -> "ConfigData"
      [] c = "cache"  -> "CacheData"
      [] c = "data"   -> "LocalData"

allPaths(e) ==
    Range(e.config_paths) \cup Range(e.cache_paths) \cup Range(e.data_paths)

RECURSIVE SizeSum(_)
\* the sum of the sizes of the paths in P
SizeSum(P) ==
    IF P = {} THEN 0
    ELSE LET p == CHOOSE x \in P : TRUE
         IN  FileSize[p] + SizeSum(P \ {p})

\* C1: once every started rescan, deleteData or deleteUnusedData has
\* returned, totalConfigSize, totalCacheSize and totalLocalDataSize are the
\* sums of configSize, cacheSize and localDataSize over the rows.
C1_TotalsAreRowSums ==
    Completed =>
        /\ m_total_config_size = RowSumOver(Rows, "config_size")
        /\ m_total_cache_size = RowSumOver(Rows, "cache_size")
        /\ m_total_localdata_size = RowSumOver(Rows, "data_size")

C3_PartialFailureKeepsData ==
    [][\A n \in DOMAIN m_entries, c \in Categories :
          LET P == Range(pathsOf(m_entries[n], c))
          IN  (/\ Cardinality(P) > 1
               /\ sizeOf(m_entries[n], c) > 0
               /\ (P \cap disk) \ disk' # {}
               /\ P \cap disk' # {})
              => /\ n \in DOMAIN m_entries'
                 /\ n \in Range(m_names')
                 /\ sizeOf(m_entries'[n], c) = SizeSum(P \cap disk')]_vars

\* whether c is the only category of e with a size above 0
OnlyNonempty(e, c) ==
    /\ sizeOf(e, c) > 0
    /\ \A o \in Categories \ {c} : sizeOf(e, o) = 0

C5_EmptyPathAbortsBatch ==
    (call.state = "returned" /\ "" \in Range(call.paths))
        => /\ call.res = 0
           /\ disk = call.before
           /\ call.errors = <<>>

\* C5 witness: the call has returned for a batch whose empty path comes after
\* a path that was on the disk and would have been removed.
C5_Witness ==
    /\ call.state = "returned"
    /\ \E i, j \in 1..Len(call.paths) :
          /\ i < j
          /\ call.paths[j] = ""
          /\ call.paths[i] \in call.before \ call.refused

\* whether removePaths removes the path at position i of the batch of call:
\* it was on the disk, its removal is not refused and no earlier position
\* names it
Succeeds(i) ==
    /\ call.paths[i] \in call.before \ call.refused
    /\ \A j \in 1..(i - 1) : call.paths[j] # call.paths[i]

\* the positions of the batch of call where the removal fails, in order
FailedPositions ==
    SelectSeq([i \in 1..Len(call.paths) |-> i], LAMBDA i : ~Succeeds(i))

\* C6: removePaths on a batch without an empty path removes every path it
\* can, whatever fails before it, returns the sum of the sizes of the paths
\* removed and emits one deletionError per position that failed, in order.
C6_PathsAreIndependent ==
    (call.state = "returned" /\ "" \notin Range(call.paths))
        => /\ disk = call.before
                       \ {call.paths[i] : i \in {k \in 1..Len(call.paths) :
                                                     Succeeds(k)}}
           /\ call.res = SizeSum(call.before \ disk)
           /\ call.errors =
                 [k \in 1..Len(FailedPositions) |->
                     [sig |-> "deletionError",
                      arg |-> call.paths[FailedPositions[k]]]]

\* C6 witness: of a batch of three paths the first and the third were
\* removed and the second failed.
C6_Witness ==
    /\ call.state = "returned"
    /\ Len(call.paths) = 3
    /\ "" \notin Range(call.paths)
    /\ Succeeds(1) /\ ~Succeeds(2) /\ Succeeds(3)
    /\ call.res = FileSize[call.paths[1]] + FileSize[call.paths[3]]

\* C7: no step of a deleteUnusedData task changes a record that is
\* installed: it keeps its row, its entry (sizes, paths, installed) and every
\* path of it that was on the disk.
C7_InstalledUntouched ==
    [][(\E s \in Slots : /\ tasks[s].kind = "deleteUnusedData"
                         /\ tasks[s].pc \notin {"idle", "done"})
          => \A n \in DOMAIN m_entries :
                m_entries[n].installed
                    => /\ n \in DOMAIN m_entries'
                       /\ m_entries'[n] = m_entries[n]
                       /\ indexOf(m_names', n) >= 0
                       /\ allPaths(m_entries[n]) \cap disk \subseteq disk']_vars

\* C7 witness: a deleteUnusedData task has gone through the map and
\* reclaimed bytes while an installed record held data of a category asked
\* for.
C7_Witness ==
    \E s \in Slots :
        /\ tasks[s].kind = "deleteUnusedData" /\ tasks[s].pc = "finish"
        /\ tasks[s].deleted > 0
        /\ \E n \in DOMAIN m_entries, c \in Categories :
              /\ m_entries[n].installed
              /\ flagOf(c) \in tasks[s].types
              /\ sizeOf(m_entries[n], c) > 0
              /\ Range(pathsOf(m_entries[n], c)) \subseteq disk

\* C8: a deleteData for a name that is not in the map changes neither the
\* name list, the map, the totals, the disk nor the busy flag, and emits
\* nothing, from the command to the return of the task.
C8_MissingNameIsNoOp ==
    [][\A s \in Slots :
          (/\ tasks'[s] # tasks[s]
           /\ tasks'[s].kind = "deleteData"
           /\ tasks'[s].name \notin DOMAIN m_entries
           /\ tasks'[s].pc = "check" \/ tasks[s].pc = "check")
          => /\ UNCHANGED <<m_names, m_entries, totalVars, disk, m_busy,
                            m_resetting, signals>>
             /\ tasks'[s].pc \in {"check", "done"}]_vars

\* C8 witness: a deleteData task has returned for a missing name while the
\* registry held rows.
C8_Witness ==
    \E s \in Slots :
        /\ tasks[s].kind = "deleteData" /\ tasks[s].pc = "done"
        /\ tasks[s].missing
        /\ tasks[s].types # {}
        /\ m_names # <<>>

\* whether the task t has run its first statement and not yet returned
Running(t) ==
    \/ t.kind = "reset" /\ t.pc \in {"mark", "scan", "total", "unbusy",
                                     "unmark"}
    \/ t.kind = "deleteData" /\ t.pc \in {"clear", "finish"}
    \/ t.kind = "deleteUnusedData" /\ t.pc \in {"loop", "finish"}

\* C9: busy is true whenever a rescan, deleteData or deleteUnusedData task
\* is between its start and its return.
C9_BusyWhileRunning ==
    (\E s \in Slots : Running(tasks[s])) => m_busy

\* how many times x occurs in the sequence q
Count(q, x) == Cardinality({i \in 1..Len(q) : q[i] = x})

knownPaths(app, i) ==
    CASE i = 0 -> app.config
      [] i = 1 -> app.cache
      [] i = 2 -> app.local_data

categoryOf(i) ==
    CASE i = 0 -> "config"
      [] i = 1 -> "cache"
      [] i = 2 -> "data"

\* C10: right after the scan, a directory on the disk that a known app
\* claims and that discovery also finds under its search root gives one row
\* for that app, is held once by that category of its record and by no other
\* record or category, and the category size counts it once.
C10_ClaimedDirCountedOnce ==
    (\E s \in Slots : tasks[s].kind = "reset" /\ tasks[s].pc = "total")
        => \A k \in 1..Len(knownApps), i \in 0..2 :
              \A p \in Range(knownPaths(knownApps[k], i))
                          \cap app_paths[i] \cap disk :
                 LET name == knownApps[k].name
                     c == categoryOf(i)
                 IN  /\ Count(m_names, name) = 1
                     /\ name \in DOMAIN m_entries
                     /\ Count(pathsOf(m_entries[name], c), p) = 1
                     /\ sizeOf(m_entries[name], c) =
                           SizeSum(Range(knownPaths(knownApps[k], i))
                                     \cap disk)
                     /\ \A n \in DOMAIN m_entries, o \in Categories :
                           (n # name \/ o # c)
                               => p \notin Range(pathsOf(m_entries[n], o))

\* C10 witness: the scan has run on a disk that holds cfg/harbour-a, claimed
\* by the known app harbour-a, beside a directory only discovery finds.
C10_Witness ==
    /\ \E s \in Slots : tasks[s].kind = "reset" /\ tasks[s].pc = "total"
    /\ {"cfg/harbour-a", "etc/a.conf", "cfg/harbour-foo"} \subseteq disk
    /\ "harbour-a" \in DOMAIN m_entries
    /\ "harbour-foo" \in DOMAIN m_entries
    /\ m_entries["harbour-a"].config_size = 1 + 2

\* whether a rescan task has returned and was not yet discarded
RescanReturned == \E s \in Slots : tasks[s].kind = "reset" /\ tasks[s].pc = "done"

\* C11: once a rescan has returned, the size of every category of every
\* record is the sum of getSize over the paths that category holds.
C11_SizeIsSumOfPaths ==
    RescanReturned
        => \A n \in DOMAIN m_entries, c \in Categories :
              sizeOf(m_entries[n], c) =
                 SizeSum(Range(pathsOf(m_entries[n], c)) \cap disk)

\* the names of the known apps that have data on disk d, in registry order
knownWithData(d) ==
    SelectSeq([k \in 1..Len(knownApps) |-> knownApps[k].name],
              LAMBDA n : \E k \in 1..Len(knownApps) :
                            /\ knownApps[k].name = n
                            /\ \E i \in 0..2 :
                                  SizeSum(Range(knownPaths(knownApps[k], i))
                                            \cap d) > 0)

RECURSIVE firstOccurrences(_)
\* the sequence q with every element kept at its first place only
firstOccurrences(q) ==
    IF q = <<>> THEN <<>>
    ELSE LET front == firstOccurrences(SubSeq(q, 1, Len(q) - 1))
             last == q[Len(q)]
         IN  IF last \in Range(front) THEN front ELSE Append(front, last)

\* the names discovery adds for the listing dirs on disk d, in the order it
\* comes to them: base names of the directories no known app claims, but for
\* the known apps that already have a row
discovered(d, dirs) ==
    LET found == SelectSeq(dirs, LAMBDA p : p \notin excludeDirs)
        names == [k \in 1..Len(found) |-> fileName[found[k]]]
    IN  firstOccurrences(SelectSeq(names,
                            LAMBDA n : n \notin Range(knownWithData(d))))

\* whether this step is the scan of a rescan task
ScanStep ==
    \E s \in Slots : /\ tasks[s].kind = "reset"
                     /\ tasks[s].pc = "scan" /\ tasks'[s].pc = "total"

\* whether this step is a step of a deleteData or deleteUnusedData task
DeleteStep ==
    \E s \in Slots : /\ tasks[s].kind \in {"deleteData", "deleteUnusedData"}
                     /\ tasks'[s] # tasks[s]

\* C12: the scan of a rescan leaves as rows the known apps that have data, in
\* registry order, then the discovered names in the order they were first
\* found, each name once; a step of a deleteData or deleteUnusedData task
\* leaves the rows that remain in the order they had.
C12_RowsInInsertionOrder ==
    [][/\ ScanStep =>
            /\ \E ord0 \in Perms(app_paths[0] \cap disk),
                  ord1 \in Perms(app_paths[1] \cap disk),
                  ord2 \in Perms(app_paths[2] \cap disk) :
                  m_names' = knownWithData(disk)
                               \o discovered(disk, ord0 \o ord1 \o ord2)
            /\ \A n \in Range(m_names') : Count(m_names', n) = 1
       /\ DeleteStep =>
            /\ Range(m_names') \subseteq Range(m_names)
            /\ m_names' = SelectSeq(m_names,
                                    LAMBDA n : n \in Range(m_names'))]_vars

\* C12 witness: a deleteData task has removed the first of three rows, a known
\* app, and left two discovered names in the order they were found, which is
\* not the order of the keys of the map.
C12_Witness ==
    /\ \E s \in Slots :
          /\ tasks[s].kind = "deleteData" /\ tasks[s].pc = "finish"
          /\ tasks[s].name = "app.x"
          /\ \E k \in 1..Len(signals[s]) :
                signals[s][k] = [sig |-> "rowsRemoved", arg |-> 0]
    /\ m_names = <<"harbour-foo", "harbour-a">>

\* the signals the task in slot s emits in this step
emitted(s) == SubSeq(signals'[s], Len(signals[s]) + 1, Len(signals'[s]))

\* the dataDeleted signals in the sequence q
dataDeletedIn(q) == SelectSeq(q, LAMBDA g : g.sig = "dataDeleted")

\* whether this step is the one in which the delete task in slot s runs its
\* closing if (deleted > 0) block
ClosingStep(s) ==
    \/ /\ tasks[s].kind = "deleteData"
       /\ tasks[s].pc = "clear" /\ tasks'[s].pc = "finish"
    \/ /\ tasks[s].kind = "deleteUnusedData"
       /\ tasks[s].pc = "loop" /\ tasks'[s].pc = "finish"

\* the seven totals as an observer reads them after this step
totalsRead ==
    [unused_apps_count |-> m_unused_apps_count',
     total_localdata_size |-> m_total_localdata_size',
     total_cache_size |-> m_total_cache_size',
     total_config_size |-> m_total_config_size',
     unused_config_size |-> m_unused_config_size',
     unused_cache_size |-> m_unused_cache_size',
     unused_localdata_size |-> m_unused_localdata_size']

\* C13: every step of a deleteData or deleteUnusedData task adds to the
\* task's count of bytes exactly the sizes of the paths it removes; the task
\* emits dataDeleted in its closing step only, once and as its last signal
\* when the count is above 0 and not at all when it is 0; the signal carries
\* the count, and calculateTotal has run on the map and emitted totalChanged
\* right before it.
C13_DataDeletedOnceWithTotal ==
    [][\A s \in Slots :
          (/\ tasks[s].kind \in {"deleteData", "deleteUnusedData"}
           /\ tasks'[s].kind = tasks[s].kind
           /\ tasks'[s] # tasks[s])
          => /\ tasks'[s].deleted =
                   (IF tasks[s].pc \in {"begin", "check"}
                        THEN 0 ELSE tasks[s].deleted)
                   + SizeSum(disk \ disk')
             /\ ~ClosingStep(s) => dataDeletedIn(emitted(s)) = <<>>
             /\ (ClosingStep(s) /\ tasks'[s].deleted = 0)
                   => dataDeletedIn(signals'[s]) = <<>>
             /\ (ClosingStep(s) /\ tasks'[s].deleted > 0)
                   => LET q == signals'[s]
                      IN  /\ dataDeletedIn(q) =
                                <<[sig |-> "dataDeleted",
                                   arg |-> tasks'[s].deleted]>>
                          /\ Len(q) >= 2
                          /\ q[Len(q)].sig = "dataDeleted"
                          /\ q[Len(q) - 1].sig = "totalChanged"
                          /\ totalsRead = calculateTotal(m_entries')]_vars

\* C13 witness: a deleteUnusedData task has cleared two records, one of 16
\* bytes and one of 32, and closed with dataDeleted(48).
C13_Witness ==
    \E s \in Slots :
        /\ tasks[s].kind = "deleteUnusedData" /\ tasks[s].pc = "finish"
        /\ tasks[s].deleted = 16 + 32
        /\ Len(signals[s]) >= 2
        /\ signals[s][Len(signals[s])] = [sig |-> "dataDeleted", arg |-> 48]
        /\ {"share/harbour-foo", "share/app.x"} \cap disk = {}

\* C14: once every started rescan, deleteData or deleteUnusedData has
\* returned, commands being issued one at a time, no name is twice in the name
\* list and the names in the list are the keys of the map.
C14_NamesMatchKeys ==
    Completed
        => /\ \A i, j \in 1..Len(m_names) : m_names[i] = m_names[j] => i = j
           /\ Range(m_names) = DOMAIN m_entries

\* C14 witness: a deleteData task has returned after removing the row of its
\* record, found by the scan under two search roots, and two rows are left,
\* one of them with directories under two search roots.
C14_Witness ==
    /\ \E s \in Slots :
          /\ tasks[s].kind = "deleteData" /\ tasks[s].pc = "done"
          /\ tasks[s].name = "harbour-foo"
          /\ tasks[s].deleted > 0
    /\ Len(m_names) = 2
    /\ "harbour-foo" \notin DOMAIN m_entries
    /\ "harbour-a" \in DOMAIN m_entries
    /\ m_entries["harbour-a"].config_paths # <<>>
    /\ m_entries["harbour-a"].cache_paths # <<>>

\* C15: at most one rescan, deleteData or deleteUnusedData task is between
\* its first statement and its return at any time, also when a command is
\* issued while a task is still held.
C15_OneTaskAtATime ==
    Cardinality({s \in Slots : Running(tasks[s])}) <= 1

roleOf(c) ==
    CASE c = "config" -> "ConfigSizeRole"
      [] c = "cache"  -> "CacheSizeRole"
      [] c = "data"   -> "LocalDataSizeRole"

\* the record the delete task in slot s runs clearEntry on in its next step
clearedName(s) ==
    IF tasks[s].kind = "deleteData" THEN tasks[s].name ELSE tasks[s].it

\* whether this step is one in which the delete task in slot s runs
\* clearEntry on a record of the map
ClearStep(s) ==
    /\ clearedName(s) \in DOMAIN m_entries
    /\ \/ /\ tasks[s].kind = "deleteData"
          /\ tasks[s].pc = "clear" /\ tasks'[s].pc = "finish"
       \/ /\ tasks[s].kind = "deleteUnusedData"
          /\ tasks[s].pc = "loop" /\ tasks'[s].pc = "loop"
          /\ tasks'[s] # tasks[s]
          /\ ~m_entries[clearedName(s)].installed

\* the bytes this step reclaims from category c of the record named n
reclaimed(n, c) ==
    SizeSum((Range(pathsOf(m_entries[n], c)) \cap disk) \ disk')

\* the roles the dataChanged signals in the sequence q report
changedRoles(q) ==
    UNION {Range(q[k].arg[2]) : k \in {j \in 1..Len(q) :
                                           q[j].sig = "dataChanged"}}

\* C16: when clearEntry reclaims bytes from a requested category of a record
\* and the record keeps its row, the category is left with size 0 and with
\* no paths, and the roles reported as changed are those of the categories
\* bytes were reclaimed from.
C16_ClearedCategoryIsEmptied ==
    [][\A s \in Slots :
          LET n == clearedName(s)
          IN  (ClearStep(s) /\ n \in DOMAIN m_entries')
              => /\ \A c \in Categories :
                       (flagOf(c) \in tasks[s].types /\ reclaimed(n, c) > 0)
                           => /\ sizeOf(m_entries'[n], c) = 0
                              /\ pathsOf(m_entries'[n], c) = <<>>
                 /\ changedRoles(emitted(s)) =
                       {roleOf(c) : c \in {x \in Categories :
                                               reclaimed(n, x) > 0}}]_vars

\* the seven totals as an observer reads them now
totalsNow ==
    [unused_apps_count |-> m_unused_apps_count,
     total_localdata_size |-> m_total_localdata_size,
     total_cache_size |-> m_total_cache_size,
     total_config_size |-> m_total_config_size,
     unused_config_size |-> m_unused_config_size,
     unused_cache_size |-> m_unused_cache_size,
     unused_localdata_size |-> m_unused_localdata_size]

\* whether the deleteUnusedData task in slot s is in its loop and the last
\* thing it did was to notify that a row was removed or updated
AtRowNotification(s) ==
    /\ tasks[s].kind = "deleteUnusedData" /\ tasks[s].pc = "loop"
    /\ signals[s] # <<>>
    /\ signals[s][Len(signals[s])].sig \in {"rowsRemoved", "dataChanged"}

\* C17: whenever a deleteUnusedData task has just notified that a row was
\* removed or updated, the totals and unusedAppsCount an observer reads are
\* the ones calculateTotal gives on the records as they are now.
C17_TotalsFreshAtRowNotification ==
    \A s \in Slots :
        AtRowNotification(s) => totalsNow = calculateTotal(m_entries)

\* the paths clearEntry hands to removePaths for entry e and the given types:
\* those of the requested categories with a size above 0
handedOver(e, types) ==
    UNION {Range(pathsOf(e, c)) :
              c \in {x \in Categories : flagOf(x) \in types
                                          /\ sizeOf(e, x) > 0}}

\* C18: the step in which a deleteData task clears its record removes from
\* the disk, and reports deletion errors for, only paths of the categories of
\* that record that were asked for and have a size above 0; the categories
\* not asked for keep their size and paths, and every other record stays as
\* it was.
C18_DeleteDataTouchesOnlyRequested ==
    [][\A s \in Slots :
          LET n == tasks[s].name
          IN  (/\ tasks[s].kind = "deleteData"
               /\ tasks[s].pc = "clear" /\ tasks'[s].pc = "finish"
               /\ n \in DOMAIN m_entries)
              => /\ disk' \subseteq disk
                 /\ disk \ disk' \subseteq handedOver(m_entries[n],
                                                        tasks[s].types)
                 /\ \A k \in 1..Len(emitted(s)) :
                       emitted(s)[k].sig = "deletionError"
                           => emitted(s)[k].arg \in
                                 handedOver(m_entries[n], tasks[s].types)
                 /\ n \in DOMAIN m_entries'
                       => \A c \in Categories :
                             flagOf(c) \notin tasks[s].types
                                 => /\ sizeOf(m_entries'[n], c) =
                                          sizeOf(m_entries[n], c)
                                    /\ pathsOf(m_entries'[n], c) =
                                          pathsOf(m_entries[n], c)
                 /\ \A o \in DOMAIN m_entries \ {n} :
                       /\ o \in DOMAIN m_entries'
                       /\ m_entries'[o] = m_entries[o]
                       /\ indexOf(m_names', o) >= 0]_vars

\* C18 witness: a deleteData task asked for the config and local data of
\* harbour-foo, whose config directory is on the disk with size 0, while
\* harbour-a held config and cache data: the local data is gone, the config
\* directory is still there and the paths of harbour-a are all on the disk.
C18_Witness ==
    /\ \E s \in Slots :
          /\ tasks[s].kind = "deleteData" /\ tasks[s].pc = "finish"
          /\ tasks[s].name = "harbour-foo"
          /\ tasks[s].types = {"ConfigData", "LocalData"}
          /\ tasks[s].deleted = 16
    /\ "cfg/harbour-foo" \in disk
    /\ "share/harbour-foo" \notin disk
    /\ "harbour-a" \in DOMAIN m_entries
    /\ m_entries["harbour-a"].config_size > 0
    /\ m_entries["harbour-a"].cache_size > 0
    /\ allPaths(m_entries["harbour-a"]) \subseteq disk

\* C19: in every state, also between the signals a rescan emits, busy is
\* true whenever resetting is true.
C19_ResettingImpliesBusy == m_resetting => m_busy

(***************************************************************************)
(* The thread pool keeps running a task it has started: a step of a task   *)
(* that stays possible is eventually taken.                                *)
(***************************************************************************)
TaskStep ==
    \E s \in Slots :
        resetImpl(s) \/ deleteDataImpl(s) \/ deleteUnusedDataImpl(s)

\* the disks of the runs checked for termination: the two config paths of
\* harbour-a, so that a removal can be refused while another goes through,
\* with any of a cache path, a discovered directory and a second known app
InitFair ==
    /\ disk \in {{"cfg/harbour-a", "etc/a.conf"} \cup x :
                    x \in SUBSET {"var/a.cache", "share/harbour-foo",
                                  "share/app.x"}}
    /\ desktop \in SUBSET {"harbour-a"}
    /\ Constructed
    /\ call = NoCall

SpecFair == InitFair /\ [][Next]_vars /\ WF_vars(TaskStep)

\* C20: every rescan, deleteData or deleteUnusedData task that was started
\* eventually returns, whatever removals were refused on its way, and leaves
\* busy and resetting false.
C20_EveryTaskReturns ==
    (~Completed) ~> (Completed /\ ~m_busy /\ ~m_resetting)

\* C20 witness: a deleteUnusedData task has returned with busy false after a
\* removal was refused in one record and bytes were reclaimed from another.
C20_Witness ==
    \E s \in Slots :
        /\ tasks[s].kind = "deleteUnusedData" /\ tasks[s].pc = "done"
        /\ ~m_busy
        /\ tasks[s].deleted > 0
        /\ \E k \in 1..Len(signals[s]) : signals[s][k].sig = "deletionError"
        /\ \E k \in 1..Len(signals[s]) : signals[s][k].sig = "rowsRemoved"
        /\ \E k \in 1..Len(signals[s]) : signals[s][k].sig = "dataChanged"

====
